---- MODULE Spec2Model ----
(***************************************************************************)
(* Model of experts/code_sample/chapter-7/tf_function.ipynb: the functions *)
(* the notebook decorates with @tf.function (double, fizzbuzz), the calls  *)
(* it makes on them, and the behaviour of the Function object as the       *)
(* notebook documents it (its markdown cells) and records it (the stored   *)
(* cell outputs): a cache of ConcreteFunctions keyed by the dtype and      *)
(* shape of the argument, a trace of the Python body on a miss, and        *)
(* AutoGraph's lowering of `if` and `for` on tensors.                      *)
(***************************************************************************)
EXTENDS Integers, Sequences, FiniteSets, TLC

VARIABLES
  cache,    \* per Function: signature -> ConcreteFunction [id, graph]
  ntraces,  \* traces made so far, over all Functions
  calls,    \* the calls made, in order: how each was dispatched and what its trace printed
  last,     \* the latest call's argument, tf.print output and returned tensor (<<>> before any)
  flag      \* the Python value the non-Tensor condition reads

vars == <<cache, ntraces, calls, last, flag>>

\* ------------------------------------------------------------------ bounds
MaxCalls == 3
MaxN == 20

\* ----------------------------------------------------------------- tensors
\* tf.constant(v): dtype, shape, and the elements in row order.  float32
\* values are held in tenths (1.1 is 11), strings as strings.
Tensor(dtype, shape, elems) == [dtype |-> dtype, shape |-> shape, elems |-> elems]

Scalar(dtype, v) == Tensor(dtype, <<>>, <<v>>)

DTypes == {"int32", "float32", "string"}

\* The contents the calls draw from, per dtype: tf.constant(1), (1.1), ("a")
\* and ("b") are the notebook's; the others vary contents and shape.
ElemsOf(dtype) ==
  CASE dtype = "int32" -> {1, 2}
    [] dtype = "float32" -> {11, 22}
    [] dtype = "string" -> {"a", "b"}

DoubleArgs(dtype) ==
  {Scalar(dtype, v) : v \in ElemsOf(dtype)}
    \cup {Tensor(dtype, <<2>>, <<v, v>>) : v \in ElemsOf(dtype)}

FizzbuzzArgs == {Scalar("int32", n) : n \in 1..MaxN}

\* --------------------------------------------------------- python sources
\* The body of a decorated function, as a sequence of statements.
\* print(msg) and print(msg, a): withArg says whether the argument is printed.
PyPrint(msg, withArg) == [stmt |-> "print", msg |-> msg, withArg |-> withArg]
TfPrint(what) == [stmt |-> "tf.print", what |-> what]
ReturnAdd == [stmt |-> "return a + a"]
IfTensor(div, thenB, elseB) ==
  [stmt |-> "if", cond |-> "tensor", div |-> div, thenB |-> thenB, elseB |-> elseB]
IfPython(val, thenB, elseB) ==
  [stmt |-> "if", cond |-> "python", val |-> val, thenB |-> thenB, elseB |-> elseB]
ForRange(body) == [stmt |-> "for", body |-> body]

double == << PyPrint("Tracing with", TRUE), ReturnAdd >>

fizzbuzz ==
  << ForRange(
       << PyPrint("Tracing for loop", FALSE),
          IfTensor(15,
            << PyPrint("Tracing fizzbuzz branch", FALSE), TfPrint("fizzbuzz") >>,
            << IfTensor(3,
                 << PyPrint("Tracing fizz branch", FALSE), TfPrint("fizz") >>,
                 << IfTensor(5,
                      << PyPrint("Tracing buzz branch", FALSE), TfPrint("buzz") >>,
                      << PyPrint("Tracing default branch", FALSE), TfPrint("i") >>) >>) >>) >>) >>

\* The `if <condition>` of the Conditionals cell with a <condition> that is not
\* a Tensor: a Python value, flag, read when the body runs.
conditional ==
  << IfPython(flag,
       << PyPrint("Tracing true branch", FALSE), TfPrint("true") >>,
       << PyPrint("Tracing false branch", FALSE), TfPrint("false") >>) >>

ConditionalArgs == {Scalar("int32", v) : v \in ElemsOf("int32")}

Functions == {"double", "fizzbuzz", "conditional"}

python_function(fn) ==
  CASE fn = "double" -> double
    [] fn = "fizzbuzz" -> fizzbuzz
    [] fn = "conditional" -> conditional

\* ------------------------------------------------------------------ tracing
\* What one trace of a body yields: the Python side effects it performed, in
\* order, and the graph it recorded.
NoTrace == [effects |-> <<>>, graph |-> <<>>]

\* The symbolic argument of a trace, Tensor("a:0", shape=(), dtype=int32): the
\* dtype and shape of the argument without its contents.
Placeholder(arg) == [dtype |-> arg.dtype, shape |-> arg.shape]

\* if_stmt with a Tensor condition run as a Python conditional (the Tensor
\* object taken as true), as without AutoGraph: only the then-branch is traced.
if_stmt_NoAutoGraph(s, thenT, elseT) ==
  IF s.cond = "tensor" THEN thenT
  ELSE IF s.val THEN thenT ELSE elseT

\* if_stmt running both branches of a Python conditional while tracing, and
\* keeping the graph of the one taken.
if_stmt_BothBranches(s, thenT, elseT) ==
  IF s.cond = "tensor"
  THEN [effects |-> thenT.effects \o elseT.effects,
        graph |-> << [op |-> "Cond", div |-> s.div,
                      thenG |-> thenT.graph, elseG |-> elseT.graph] >>]
  ELSE [effects |-> thenT.effects \o elseT.effects,
        graph |-> IF s.val THEN thenT.graph ELSE elseT.graph]

\* AutoGraph's conversion of `if`: tf.cond, which traces and adds both branches,
\* when the condition is a Tensor; otherwise the Python conditional, which runs
\* during tracing and adds the one branch it takes.
if_stmt(s, thenT, elseT) ==
  IF s.cond = "tensor"
  THEN [effects |-> thenT.effects \o elseT.effects,
        graph |-> << [op |-> "Cond", div |-> s.div,
                      thenG |-> thenT.graph, elseG |-> elseT.graph] >>]
  ELSE IF s.val THEN thenT ELSE elseT

\* for_stmt recording the traced body as straight-line code, with no loop node.
for_stmt_NoLoop(bodyT) == bodyT

\* AutoGraph's conversion of `for i in tf.range(1, n + 1)`: the body is traced
\* once and becomes the body of a loop node.
for_stmt(bodyT) ==
  [effects |-> bodyT.effects, graph |-> << [op |-> "While", body |-> bodyT.graph] >>]

RECURSIVE TraceBlock(_, _)
TraceStmt(s, ph) ==
  CASE s.stmt = "print" ->
         [effects |-> << [msg |-> s.msg, arg |-> IF s.withArg THEN <<ph>> ELSE <<>>] >>,
          graph |-> <<>>]
    [] s.stmt = "tf.print" ->
         [effects |-> <<>>, graph |-> << [op |-> "PrintV2", what |-> s.what] >>]
    [] s.stmt = "return a + a" ->
         [effects |-> <<>>, graph |-> << [op |-> "AddV2"] >>]
    [] s.stmt = "if" -> if_stmt(s, TraceBlock(s.thenB, ph), TraceBlock(s.elseB, ph))
    [] s.stmt = "for" -> for_stmt(TraceBlock(s.body, ph))

TraceBlock(body, ph) ==
  IF body = <<>> THEN NoTrace
  ELSE LET h == TraceStmt(Head(body), ph)
           t == TraceBlock(Tail(body), ph)
       IN [effects |-> h.effects \o t.effects, graph |-> h.graph \o t.graph]

\* ---------------------------------------------------------------- execution
\* a + a on tensors: elementwise, concatenation on strings.
AddV2(a, b) ==
  Tensor(a.dtype, a.shape,
         [k \in 1..Len(a.elems) |->
            IF a.dtype = "string" THEN a.elems[k] \o b.elems[k]
            ELSE a.elems[k] + b.elems[k]])

NoResult == [out |-> <<>>, ret |-> <<>>]

\* Running a graph on the argument a, with i the loop variable in scope: what
\* tf.print writes, and the returned tensor (none: <<>>).
RECURSIVE ExecBlock(_, _, _), ExecLoop(_, _, _, _)
ExecNode(node, a, i) ==
  CASE node.op = "PrintV2" ->
         [out |-> << IF node.what = "i" THEN ToString(i) ELSE node.what >>, ret |-> <<>>]
    [] node.op = "AddV2" -> [out |-> <<>>, ret |-> << AddV2(a, a) >>]
    [] node.op = "Cond" ->
         IF i % node.div = 0 THEN ExecBlock(node.thenG, a, i)
         ELSE ExecBlock(node.elseG, a, i)
    [] node.op = "While" -> ExecLoop(node.body, a, 1, a.elems[1])

ExecBlock(graph, a, i) ==
  IF graph = <<>> THEN NoResult
  ELSE LET h == ExecNode(Head(graph), a, i)
           t == ExecBlock(Tail(graph), a, i)
       IN [out |-> h.out \o t.out, ret |-> h.ret \o t.ret]

\* tf.range(1, n + 1): i = 1, ..., n.
ExecLoop(body, a, i, n) ==
  IF i > n THEN NoResult
  ELSE LET h == ExecBlock(body, a, i)
           t == ExecLoop(body, a, i + 1, n)
       IN [out |-> h.out \o t.out, ret |-> h.ret \o t.ret]

\* ----------------------------------------------------------------- dispatch
\* Signature keyed on the contents of the tensor as well.
Signature_ByContents(arg) == << arg.dtype, arg.shape, arg.elems >>

\* Signature keyed on the shape alone.
Signature_ShapeOnly(arg) == << arg.shape >>

\* The key a Function selects a graph by: static dtype and shape dimensions.
Signature(arg) == << arg.dtype, arg.shape >>

\* Store keeping the newest ConcreteFunction only.
Store_Replacing(c, sig, unit) == [s \in {sig} |-> unit]

\* Adding a ConcreteFunction to a Function's cache.
Store(c, sig, unit) ==
  [s \in DOMAIN c \cup {sig} |-> IF s = sig THEN unit ELSE c[s]]

\* One call fn(arg): reuse the graph traced for the signature, or trace the
\* Python function, keep the new ConcreteFunction, and run it.
Invoke(fn, arg) ==
  LET sig == Signature(arg)
      hit == sig \in DOMAIN cache[fn]
      traced == IF hit THEN NoTrace ELSE TraceBlock(python_function(fn), Placeholder(arg))
      unit == IF hit THEN cache[fn][sig]
              ELSE [id |-> ntraces + 1, graph |-> traced.graph]
      r == ExecBlock(unit.graph, arg, 0)
  IN /\ Len(calls) < MaxCalls
     /\ cache' = IF hit THEN cache ELSE [cache EXCEPT ![fn] = Store(@, sig, unit)]
     /\ ntraces' = IF hit THEN ntraces ELSE ntraces + 1
     /\ calls' = Append(calls, [fn |-> fn, dtype |-> arg.dtype, shape |-> arg.shape,
                                sig |-> sig, unit |-> unit.id,
                                traced |-> ~hit, printed |-> traced.effects])
     /\ last' = << [fn |-> fn, arg |-> arg, out |-> r.out, ret |-> r.ret] >>
     /\ UNCHANGED flag

CallDouble == \E d \in DTypes : \E arg \in DoubleArgs(d) : Invoke("double", arg)

CallFizzbuzz == \E arg \in FizzbuzzArgs : Invoke("fizzbuzz", arg)

CallConditional == \E arg \in ConditionalArgs : Invoke("conditional", arg)

Init ==
  /\ cache = [fn \in Functions |-> <<>>]
  /\ ntraces = 0
  /\ calls = <<>>
  /\ last = <<>>
  /\ flag \in BOOLEAN

Next == CallDouble \/ CallFizzbuzz \/ CallConditional

Spec == Init /\ [][Next]_vars

\* =================================================================== claims
Calls == 1..Len(calls)

\* Calls i and j are on the same Function with arguments of equal signature:
\* equal dtype and equal shape.
SameSig(i, j) ==
  /\ calls[i].fn = calls[j].fn
  /\ calls[i].dtype = calls[j].dtype
  /\ calls[i].shape = calls[j].shape

\* What one trace of each function prints (the notebook's stored outputs).
TracePrints(k) ==
  CASE calls[k].fn = "double" ->
         << [msg |-> "Tracing with",
             arg |-> << [dtype |-> calls[k].dtype, shape |-> calls[k].shape] >>] >>
    [] calls[k].fn = "fizzbuzz" ->
         [m \in 1..5 |->
            [msg |-> << "Tracing for loop", "Tracing fizzbuzz branch", "Tracing fizz branch",
                        "Tracing buzz branch", "Tracing default branch" >>[m],
             arg |-> <<>>]]
    [] calls[k].fn = "conditional" ->
         << [msg |-> IF flag THEN "Tracing true branch" ELSE "Tracing false branch",
             arg |-> <<>>] >>

\* C1: any two calls of one Function whose arguments have equal signatures
\* (dtype and shape) are served by the same ConcreteFunction, and the Python
\* side effect of the body is performed exactly once per distinct signature:
\* by the first such call, whose trace prints once, and by no later one,
\* whatever the contents of its tensor.
C1_OneTracePerSignature ==
  /\ \A i, j \in Calls : SameSig(i, j) => calls[i].unit = calls[j].unit
  /\ \A i \in Calls :
       LET same == {j \in Calls : SameSig(i, j)}
           first == CHOOSE j \in same : \A m \in same : j <= m
       IN /\ calls[first].traced
          /\ calls[first].printed = TracePrints(first)
          /\ \A j \in same \ {first} : ~calls[j].traced /\ calls[j].printed = <<>>

\* A string scalar is doubled from the graph traced by the call before it:
\* double(tf.constant("b")) prints no 'Tracing with' and returns "bb".
C1_Witness ==
  /\ Len(calls) = 2
  /\ calls[1].fn = "double" /\ calls[1].dtype = "string" /\ calls[1].shape = <<>>
  /\ calls[1].traced
  /\ SameSig(1, 2)
  /\ ~calls[2].traced /\ calls[2].printed = <<>>
  /\ last[1].arg = Scalar("string", "b")
  /\ last[1].ret = << Scalar("string", "bb") >>

\* C2: a call whose argument differs from every earlier argument of that
\* Function in dtype or shape has a signature that is not cached and makes
\* exactly one new trace, so the traces made and the cached ConcreteFunctions
\* number the distinct signatures called; double called with a float32 scalar,
\* an int32 scalar and a float32 scalar again makes 2 traces in 3 calls, the
\* third call reusing the first call's ConcreteFunction.
C2_NewSignatureOneTrace ==
  /\ \A k \in Calls :
       (\A j \in 1..(k - 1) : ~SameSig(j, k)) =>
          /\ calls[k].traced
          /\ calls[k].unit = 1 + Cardinality({j \in 1..(k - 1) : calls[j].traced})
  /\ ntraces = Cardinality({<<calls[k].fn, calls[k].dtype, calls[k].shape>> : k \in Calls})
  /\ \A fn \in Functions :
       Cardinality(DOMAIN cache[fn]) =
         Cardinality({<<calls[k].dtype, calls[k].shape>> : k \in {j \in Calls : calls[j].fn = fn}})
  /\ ( /\ Len(calls) = 3
       /\ \A k \in Calls : calls[k].fn = "double" /\ calls[k].shape = <<>>
       /\ calls[1].dtype = "float32" /\ calls[2].dtype = "int32" /\ calls[3].dtype = "float32" )
     => ntraces = 2 /\ ~calls[3].traced /\ calls[3].unit = calls[1].unit

\* double called with a float32 scalar, an int32 scalar, a float32 scalar.
C2_Witness ==
  /\ Len(calls) = 3
  /\ \A k \in Calls : calls[k].fn = "double" /\ calls[k].shape = <<>>
  /\ calls[1].dtype = "float32" /\ calls[2].dtype = "int32" /\ calls[3].dtype = "float32"
  /\ calls[1].traced /\ calls[2].traced /\ ~calls[3].traced
  /\ ntraces = 2

\* What fizzbuzz(n) prints with tf.print, line i of n.
FizzbuzzLine(i) ==
  IF i % 15 = 0 THEN "fizzbuzz"
  ELSE IF i % 3 = 0 THEN "fizz"
  ELSE IF i % 5 = 0 THEN "buzz"
  ELSE ToString(i)

\* C4: the conditionals of fizzbuzz, whose conditions are Tensors, are
\* recorded with both branches: the one trace prints every branch's message
\* once, calls served from the cache print none, and every call, traced or
\* not, writes for each i in 1..n the line of the branch i selects.
C4_BothBranchesInGraph ==
  /\ \A k \in Calls :
       calls[k].fn = "fizzbuzz" =>
         /\ calls[k].traced => calls[k].printed = TracePrints(k)
         /\ ~calls[k].traced => calls[k].printed = <<>>
  /\ (last # <<>> /\ last[1].fn = "fizzbuzz") =>
       last[1].out = [i \in 1..last[1].arg.elems[1] |-> FizzbuzzLine(i)]

\* fizzbuzz traced by one call, then fizzbuzz(tf.constant(20)) served from the
\* cache, writing the notebook's 20 lines, 'fizzbuzz' at 15 among them.
C4_Witness ==
  /\ Len(calls) = 2
  /\ calls[1].fn = "fizzbuzz" /\ calls[1].traced
  /\ calls[2].fn = "fizzbuzz" /\ ~calls[2].traced
  /\ last[1].arg = Scalar("int32", 20)
  /\ last[1].out = << "1", "2", "fizz", "4", "buzz", "fizz", "7", "8", "fizz", "buzz",
                      "11", "fizz", "13", "14", "fizzbuzz", "16", "17", "fizz", "19", "buzz" >>

\* The tf.print nodes of a graph, through Cond and While nodes.
RECURSIVE PrintsIn(_)
PrintsIn(graph) ==
  IF graph = <<>> THEN {}
  ELSE LET node == Head(graph)
           here == CASE node.op = "PrintV2" -> {node.what}
                     [] node.op = "Cond" -> PrintsIn(node.thenG) \cup PrintsIn(node.elseG)
                     [] node.op = "While" -> PrintsIn(node.body)
                     [] OTHER -> {}
       IN here \cup PrintsIn(Tail(graph))

Taken == IF flag THEN "true" ELSE "false"

C6_CompiledIsTerminal ==
  [][\A fn \in Functions : \A sig \in DOMAIN cache[fn] :
        sig \in DOMAIN cache'[fn] /\ cache'[fn][sig] = cache[fn][sig]]_vars

\* double has traced two signatures, a third was then traced, and the first
\* is still cached under its signature with the id it was given.
C6_Witness ==
  /\ Len(calls) = 3
  /\ \A k \in Calls : calls[k].fn = "double" /\ calls[k].traced
  /\ Cardinality(DOMAIN cache["double"]) = 3
  /\ cache["double"][calls[1].sig].id = 1

\* The loop nodes of a graph, at any depth.
RECURSIVE LoopsIn(_)
LoopsIn(graph) ==
  IF graph = <<>> THEN 0
  ELSE LET node == Head(graph)
           here == CASE node.op = "While" -> 1 + LoopsIn(node.body)
                     [] node.op = "Cond" -> LoopsIn(node.thenG) + LoopsIn(node.elseG)
                     [] OTHER -> 0
       IN here + LoopsIn(Tail(graph))

\* C10: the loop of fizzbuzz, over tf.range(1, n + 1) with n a Tensor, becomes
\* one loop node: a trace runs the Python body once ('Tracing for loop' is
\* printed once) whatever n is, the graph kept is a single While node, and
\* each call runs the body n times, one written line per iteration, without
\* a new trace for a new n.
C10_LoopLoweredNotUnrolled ==
  /\ \A k \in Calls :
       calls[k].fn = "fizzbuzz" =>
         /\ Cardinality({m \in 1..Len(calls[k].printed) :
                           calls[k].printed[m].msg = "Tracing for loop"})
              = (IF calls[k].traced THEN 1 ELSE 0)
         /\ calls[k].traced <=> (\A j \in 1..(k - 1) : calls[j].fn # "fizzbuzz")
  /\ \A sig \in DOMAIN cache["fizzbuzz"] :
       LET g == cache["fizzbuzz"][sig].graph
       IN Len(g) = 1 /\ g[1].op = "While" /\ LoopsIn(g) = 1
  /\ (last # <<>> /\ last[1].fn = "fizzbuzz") =>
       Len(last[1].out) = last[1].arg.elems[1]

\* Three calls of fizzbuzz, one trace; the third, with n = 20, runs the body
\* 20 times.
C10_Witness ==
  /\ Len(calls) = 3
  /\ \A k \in Calls : calls[k].fn = "fizzbuzz"
  /\ ntraces = 1
  /\ last[1].arg = Scalar("int32", 20)
  /\ Len(last[1].out) = 20

====
